---- MODULE Spec2Model ----
(***************************************************************************)
(* swampdb: a document store over Postgres.  The Database facade           *)
(* (src/src/database.ts) sends one SQL statement per await to the          *)
(* connection `pg`; collections are tables created on the first insert.    *)
(* The model keeps the tables behind `pg`, and one record per caller that  *)
(* says where its call stands between two awaits.                          *)
(***************************************************************************)
EXTENDS Integers, Sequences, FiniteSets, TLC

(* ------------------------------ bounds -------------------------------- *)
\* Number of timestamps the store hands out (one per row written).
MaxNow == 2

(* ------------------------------ inputs -------------------------------- *)
Main == "p1"
Other == "p2"
Procs == {Main, Other}
Collections == {"c1", "c2"}
Ids == {1, 2}
EmptyObject == [k \in {} |-> 0]
Bodies == {[a |-> 1, b |-> 2], [a |-> 2]}
CriteriaSet == {EmptyObject, [a |-> 1], [b |-> 2]}
\* The optional `props` argument: absent, or a list of top-level keys.
NoProps == [defined |-> FALSE]
Props(list) == [defined |-> TRUE, list |-> list]
PropsSet == {NoProps, Props(<<>>), Props(<<"b">>), Props(<<"a", "b">>)}

(* ----------------------------- constants ------------------------------ *)
tableDoesNotExist == "42P01"
\* SQLSTATE of `create table` on a name that is taken.
duplicateTable == "42P07"
\* SQLSTATE of a failure that has nothing to do with the statement.
connectionFailure == "08006"
\* JSON null, the value of body->'key' for a key the body lacks.
JsonNull == 0

VARIABLES
  pg,        \* the store behind the connection: tables, sequences, clock
  pc,        \* per caller: "idle", or "create" / "retry" inside an insert
  call,      \* per caller: the insert in progress and its arguments
  last,      \* the call that completed last: arguments, statements, outcome
  inserted,  \* history: the documents insert statements have returned
  lastUpdate \* history: per (collection, id), the body of the last update

vars == <<pg, pc, call, last, inserted, lastUpdate>>

(* --------------------------- result values ---------------------------- *)
Rows(s) == [kind |-> "rows", rows |-> s]
Err(code) == [kind |-> "error", code |-> code]
Doc(d) == [kind |-> "doc", doc |-> d]
NullResult == [kind |-> "null"]
Undefined == [kind |-> "undefined"]
MissingRecordError(collection, criteria) ==
  [kind |-> "MissingRecordError", collection |-> collection, criteria |-> criteria]
NoCall == [op |-> "none"]
NoResult == [kind |-> "none"]

Range(s) == {s[i] : i \in DOMAIN s}

(* ------------------------- statement builder -------------------------- *)
\* !props is true for undefined only: an empty list is truthy.
propsToColumns(props) ==
  IF ~props.defined THEN [star |-> TRUE]
  ELSE [star |-> FALSE, keys |-> Range(props.list)]

\* Mutant of SqlGet: the `where id = $[id]` clause is missing.
SqlGet_NoWhere(collection, id, columns) ==
  [kind |-> "select", collection |-> collection, where |-> "true", id |-> id,
   columns |-> columns, ordered |-> FALSE]

SqlGet(collection, id, columns) ==
  [kind |-> "select", collection |-> collection, where |-> "id", id |-> id,
   columns |-> columns, ordered |-> FALSE]
SqlAll(collection) ==
  [kind |-> "select", collection |-> collection, where |-> "true",
   columns |-> [star |-> TRUE], ordered |-> TRUE]
SqlFind(collection, criteria) ==
  [kind |-> "select", collection |-> collection, where |-> "contains",
   criteria |-> criteria, columns |-> [star |-> TRUE], ordered |-> TRUE]
SqlFindOne(collection, criteria) ==
  [kind |-> "select", collection |-> collection, where |-> "contains",
   criteria |-> criteria, columns |-> [star |-> TRUE], ordered |-> FALSE]
SqlInsert(collection, body) ==
  [kind |-> "insert", collection |-> collection, body |-> body]
SqlUpdate(collection, id, body) ==
  [kind |-> "update", collection |-> collection, id |-> id, body |-> body]
SqlCreate(collection) ==
  [kind |-> "create", collection |-> collection]

(* -------------------------- execution layer --------------------------- *)
\* Mutant of Contains: `=` where the statement has `@>`.
Contains_Equal(body, criteria) == body = criteria

\* body @> criteria on flat objects: every key of criteria is a key of body
\* with an equal value.
Contains(body, criteria) ==
  \A k \in DOMAIN criteria : k \in DOMAIN body /\ body[k] = criteria[k]

Where(q, r) ==
  CASE q.where = "id" -> r.id = q.id
    [] q.where = "contains" -> Contains(r.body, q.criteria)
    [] OTHER -> TRUE

\* Mutant of SelectColumns: a requested key the stored body lacks is left
\* out of the projection instead of being returned as null.
SelectColumns_StripNulls(columns, r) ==
  IF columns.star THEN r
  ELSE [r EXCEPT !.body =
          [k \in columns.keys \cap DOMAIN r.body |-> r.body[k]]]

\* jsonb_build_object('k', body->'k', ...) "body"
SelectColumns(columns, r) ==
  IF columns.star THEN r
  ELSE [r EXCEPT !.body =
          [k \in columns.keys |-> IF k \in DOMAIN r.body THEN r.body[k] ELSE JsonNull]]

RECURSIVE OrderById(_)
OrderById(S) ==
  IF S = {} THEN <<>>
  ELSE LET m == CHOOSE r \in S : \A o \in S : r.id <= o.id
       IN <<m>> \o OrderById(S \ {m})

\* Mutant of PgSelect: the read goes through changeCollection, so a select
\* on a missing table creates the table and then finds it empty.
PgSelect_Provisioning(s, q) ==
  IF q.collection \notin s.exists
  THEN {[res |-> Rows(<<>>),
         pg |-> [s EXCEPT !.exists = @ \cup {q.collection}]]}
  ELSE LET M == {SelectColumns(q.columns, r) : r \in {x \in s.rows[q.collection] : Where(q, x)}}
       IN IF q.ordered THEN {[res |-> Rows(OrderById(M)), pg |-> s]}
          ELSE IF M = {} THEN {[res |-> Rows(<<>>), pg |-> s]}
          ELSE {[res |-> Rows(<<r>>), pg |-> s] : r \in M}

\* select: `order by id asc` returns every match in id order; `limit 1`
\* without an order returns whichever match the scan meets first.
PgSelect(s, q) ==
  IF q.collection \notin s.exists THEN {[res |-> Err(tableDoesNotExist), pg |-> s]}
  ELSE LET M == {SelectColumns(q.columns, r) : r \in {x \in s.rows[q.collection] : Where(q, x)}}
       IN IF q.ordered THEN {[res |-> Rows(OrderById(M)), pg |-> s]}
          ELSE IF M = {} THEN {[res |-> Rows(<<>>), pg |-> s]}
          ELSE {[res |-> Rows(<<r>>), pg |-> s] : r \in M}

\* Mutant of PgInsert: the id column is not fed by an advancing sequence.
PgInsert_ReuseId(s, q) ==
  IF q.collection \notin s.exists THEN {[res |-> Err(tableDoesNotExist), pg |-> s]}
  ELSE IF s.now >= MaxNow THEN {}
  ELSE LET c == q.collection
           row == [id |-> s.seq[c] + 1, body |-> q.body,
                   created |-> s.now, updated |-> s.now]
       IN {[res |-> Rows(<<row>>),
            pg |-> [s EXCEPT !.rows[c] = @ \cup {row}, !.now = @ + 1]]}

\* insert ... returning *: id from the serial sequence, created and updated
\* from the column default now().  Statements run one transaction each and
\* one after the other, so now() of a later writing statement is later:
\* s.now is the stamp of the next row written.
PgInsert(s, q) ==
  IF q.collection \notin s.exists THEN {[res |-> Err(tableDoesNotExist), pg |-> s]}
  ELSE IF s.now >= MaxNow THEN {}
  ELSE LET c == q.collection
           row == [id |-> s.seq[c] + 1, body |-> q.body,
                   created |-> s.now, updated |-> s.now]
       IN {[res |-> Rows(<<row>>),
            pg |-> [s EXCEPT !.rows[c] = @ \cup {row},
                             !.seq[c] = @ + 1,
                             !.now = @ + 1]]}

\* Mutant of PgUpdate: the `where id = $[id]` clause is missing, so the
\* statement rewrites every row of the table.
PgUpdate_NoWhere(s, q) ==
  IF q.collection \notin s.exists THEN {[res |-> Err(tableDoesNotExist), pg |-> s]}
  ELSE LET c == q.collection
           M == s.rows[c]
           new == {[r EXCEPT !.body = q.body, !.updated = s.now] : r \in M}
       IN IF M = {} THEN {[res |-> Rows(<<>>), pg |-> s]}
          ELSE IF s.now >= MaxNow THEN {}
          ELSE {[res |-> Rows(OrderById(new)),
                 pg |-> [s EXCEPT !.rows[c] = new, !.now = @ + 1]]}

\* Mutant of PgUpdate: `updated = now()` is missing from the set clause.
PgUpdate_KeepUpdated(s, q) ==
  IF q.collection \notin s.exists THEN {[res |-> Err(tableDoesNotExist), pg |-> s]}
  ELSE LET c == q.collection
           M == {r \in s.rows[c] : r.id = q.id}
       IN IF M = {} THEN {[res |-> Rows(<<>>), pg |-> s]}
          ELSE IF s.now >= MaxNow THEN {}
          ELSE LET old == CHOOSE r \in M : TRUE
                   new == [old EXCEPT !.body = q.body]
               IN {[res |-> Rows(<<new>>),
                    pg |-> [s EXCEPT !.rows[c] = (@ \ {old}) \cup {new},
                                     !.now = @ + 1]]}

\* update ... set body, updated = now() where id = $[id] returning *
PgUpdate(s, q) ==
  IF q.collection \notin s.exists THEN {[res |-> Err(tableDoesNotExist), pg |-> s]}
  ELSE LET c == q.collection
           M == {r \in s.rows[c] : r.id = q.id}
       IN IF M = {} THEN {[res |-> Rows(<<>>), pg |-> s]}
          ELSE IF s.now >= MaxNow THEN {}
          ELSE LET old == CHOOSE r \in M : TRUE
                   new == [old EXCEPT !.body = q.body, !.updated = s.now]
               IN {[res |-> Rows(<<new>>),
                    pg |-> [s EXCEPT !.rows[c] = (@ \ {old}) \cup {new},
                                     !.now = @ + 1]]}

\* Mutant of PgCreate: the statement drops an existing table before it
\* creates the new one, so it never fails and empties the collection.
PgCreate_Replace(s, q) ==
  {[res |-> Rows(<<>>),
    pg |-> [s EXCEPT !.exists = @ \cup {q.collection},
                     !.rows[q.collection] = {},
                     !.seq[q.collection] = 0]]}

\* create table ...; create index ...: one simple query, one transaction.
PgCreate(s, q) ==
  IF q.collection \in s.exists THEN {[res |-> Err(duplicateTable), pg |-> s]}
  ELSE {[res |-> Rows(<<>>),
         pg |-> [s EXCEPT !.exists = @ \cup {q.collection},
                          !.rows[q.collection] = {},
                          !.seq[q.collection] = 0]]}

\* A statement sent while the connection is broken fails before it reaches
\* the tables; the driver reconnects for the statement after it.
PgFault(s, q) ==
  {[res |-> Err(connectionFailure), pg |-> [s EXCEPT !.broken = FALSE]]}

\* this.pg.query(query, params): the outcomes, each a result and the store
\* after it.
PgQuery(s, q) ==
  IF s.broken THEN PgFault(s, q)
  ELSE CASE q.kind = "select" -> PgSelect(s, q)
         [] q.kind = "insert" -> PgInsert(s, q)
         [] q.kind = "update" -> PgUpdate(s, q)
         [] q.kind = "create" -> PgCreate(s, q)

(* ------------------------------ facade -------------------------------- *)
\* results.length ? results[0] : null
FirstOrNull(r) ==
  IF r.kind # "rows" THEN r
  ELSE IF Len(r.rows) > 0 THEN Doc(r.rows[1]) ELSE NullResult

\* results[0]
First(r) ==
  IF r.kind # "rows" THEN r
  ELSE IF Len(r.rows) > 0 THEN Doc(r.rows[1]) ELSE Undefined

\* Mutant of queryCollection: the catch block recovers from every error,
\* not only from table-does-not-exist.
queryCollection_RecoverAll(r) ==
  IF r.kind = "error" THEN Rows(<<>>) ELSE r

\* Mutant of queryCollection: the catch block is missing.
queryCollection_Rethrow(r) == r

\* Recovers if collection does not yet exist.
queryCollection(r) ==
  IF r.kind = "error"
  THEN IF r.code # tableDoesNotExist THEN r ELSE Rows(<<>>)
  ELSE r

\* Mutant of tryGet: results[0] without the length test, so a missing
\* document comes back undefined instead of null.
tryGet_NoLengthTest(r) == First(queryCollection(r))

raw(r) == r

tryGet(r) == FirstOrNull(queryCollection(r))

get(collection, id, r) ==
  LET result == tryGet(r)
  IN IF result = NullResult THEN MissingRecordError(collection, [id |-> id])
     ELSE result

\* Mutant of all: the statement goes through raw, without recovery.
all_Raw(r) == r

all(r) == queryCollection(r)

find(r) == queryCollection(r)

tryFindOne(r) == FirstOrNull(queryCollection(r))

findOne(collection, criteria, r) ==
  LET result == tryFindOne(r)
  IN IF result = NullResult THEN MissingRecordError(collection, criteria)
     ELSE result

\* Mutant of insert: an error of the statement is caught and the call
\* returns undefined.
insert_Swallow(r) ==
  IF r.kind = "error" THEN Undefined ELSE First(r)

insert(r) == First(r)

update(r) == First(raw(r))

\* Mutant of NeedsCreate: the catch block rethrows whatever it caught.
NeedsCreate_Never(r) == FALSE

\* changeCollection's catch: only table-does-not-exist leads to creation.
NeedsCreate(r) == r.kind = "error" /\ r.code = tableDoesNotExist

(* ------------------------------ history ------------------------------- *)
\* An insert statement that returned a row: the body it was given and the
\* document it returned.
Recorded(c, body, r) ==
  IF r.kind = "rows" /\ Len(r.rows) > 0
  THEN inserted \cup {[collection |-> c, body |-> body, doc |-> r.rows[1]]}
  ELSE inserted

\* An update statement that changed a row: the body it wrote.
Touched(c, id, body, r) ==
  IF r.kind = "rows" /\ Len(r.rows) > 0
  THEN [k \in DOMAIN lastUpdate \cup {<<c, id>>} |->
          IF k = <<c, id>> THEN body ELSE lastUpdate[k]]
  ELSE lastUpdate

(* ------------------------------ actions ------------------------------- *)
GetCall(c, id, props) == [op |-> "get", collection |-> c, id |-> id, props |-> props]
TryGetCall(c, id, props) == [op |-> "tryGet", collection |-> c, id |-> id, props |-> props]
AllCall(c) == [op |-> "all", collection |-> c]
FindCall(c, criteria) == [op |-> "find", collection |-> c, criteria |-> criteria]
FindOneCall(c, criteria) == [op |-> "findOne", collection |-> c, criteria |-> criteria]
TryFindOneCall(c, criteria) == [op |-> "tryFindOne", collection |-> c, criteria |-> criteria]
InsertCall(c, body) == [op |-> "insert", collection |-> c, body |-> body]
UpdateCall(c, id, body) == [op |-> "update", collection |-> c, id |-> id, body |-> body]

\* The call of caller p completes: it returns or throws `result`.
\* `sent` lists the statements the call has sent to the connection.
Finish(p, c, sent, result, newpg) ==
  /\ pg' = newpg
  /\ last' = [call |-> c, sent |-> sent, result |-> result]
  /\ call' = [call EXCEPT ![p] = NoCall]
  /\ pc' = [pc EXCEPT ![p] = "idle"]

Get(p) ==
  /\ pc[p] = "idle"
  /\ \E c \in Collections, id \in Ids, props \in PropsSet :
       \E out \in PgQuery(pg, SqlGet(c, id, propsToColumns(props))) :
         Finish(p, GetCall(c, id, props), <<"select">>, get(c, id, out.res), out.pg)
  /\ UNCHANGED <<inserted, lastUpdate>>

TryGet(p) ==
  /\ pc[p] = "idle"
  /\ \E c \in Collections, id \in Ids, props \in PropsSet :
       \E out \in PgQuery(pg, SqlGet(c, id, propsToColumns(props))) :
         Finish(p, TryGetCall(c, id, props), <<"select">>, tryGet(out.res), out.pg)
  /\ UNCHANGED <<inserted, lastUpdate>>

All(p) ==
  /\ pc[p] = "idle"
  /\ \E c \in Collections :
       \E out \in PgQuery(pg, SqlAll(c)) :
         Finish(p, AllCall(c), <<"select">>, all(out.res), out.pg)
  /\ UNCHANGED <<inserted, lastUpdate>>

Find(p) ==
  /\ pc[p] = "idle"
  /\ \E c \in Collections, criteria \in CriteriaSet :
       \E out \in PgQuery(pg, SqlFind(c, criteria)) :
         Finish(p, FindCall(c, criteria), <<"select">>, find(out.res), out.pg)
  /\ UNCHANGED <<inserted, lastUpdate>>

FindOne(p) ==
  /\ pc[p] = "idle"
  /\ \E c \in Collections, criteria \in CriteriaSet :
       \E out \in PgQuery(pg, SqlFindOne(c, criteria)) :
         Finish(p, FindOneCall(c, criteria), <<"select">>, findOne(c, criteria, out.res), out.pg)
  /\ UNCHANGED <<inserted, lastUpdate>>

TryFindOne(p) ==
  /\ pc[p] = "idle"
  /\ \E c \in Collections, criteria \in CriteriaSet :
       \E out \in PgQuery(pg, SqlFindOne(c, criteria)) :
         Finish(p, TryFindOneCall(c, criteria), <<"select">>, tryFindOne(out.res), out.pg)
  /\ UNCHANGED <<inserted, lastUpdate>>

\* insert(c, body), up to the first await of changeCollection: the insert
\* statement runs; table-does-not-exist sends the call into the catch block.
InsertOn(p, c, body) ==
  /\ pc[p] = "idle"
  /\ \E out \in PgQuery(pg, SqlInsert(c, body)) :
       /\ IF NeedsCreate(out.res)
          THEN /\ pg' = out.pg
               /\ pc' = [pc EXCEPT ![p] = "create"]
               /\ call' = [call EXCEPT ![p] = InsertCall(c, body)]
               /\ last' = last
          ELSE Finish(p, InsertCall(c, body), <<"insert">>, insert(out.res), out.pg)
       /\ inserted' = Recorded(c, body, out.res)
  /\ UNCHANGED lastUpdate

Insert(p) == \E c \in Collections, body \in Bodies : InsertOn(p, c, body)

\* changeCollection's catch block: await this.createCollection(collection).
\* A failure of the create statement leaves the async function rejected.
CreateCollection(p) ==
  /\ pc[p] = "create"
  /\ \E out \in PgQuery(pg, SqlCreate(call[p].collection)) :
       IF out.res.kind = "error"
       THEN Finish(p, call[p], <<"insert", "create">>, out.res, out.pg)
       ELSE /\ pg' = out.pg
            /\ pc' = [pc EXCEPT ![p] = "retry"]
            /\ UNCHANGED <<call, last>>
  /\ UNCHANGED <<inserted, lastUpdate>>

\* changeCollection's catch block: the second this.pg.query(query, params),
\* whose outcome is the call's outcome whatever it is.
RetryInsert(p) ==
  /\ pc[p] = "retry"
  /\ \E out \in PgQuery(pg, SqlInsert(call[p].collection, call[p].body)) :
       /\ Finish(p, call[p], <<"insert", "create", "insert">>, insert(out.res), out.pg)
       /\ inserted' = Recorded(call[p].collection, call[p].body, out.res)
  /\ UNCHANGED lastUpdate

UpdateOn(p, c, id, body) ==
  /\ pc[p] = "idle"
  /\ \E out \in PgQuery(pg, SqlUpdate(c, id, body)) :
       /\ Finish(p, UpdateCall(c, id, body), <<"update">>, update(out.res), out.pg)
       /\ lastUpdate' = Touched(c, id, body, out.res)
  /\ UNCHANGED inserted

Update(p) == \E c \in Collections, id \in Ids, body \in Bodies : UpdateOn(p, c, id, body)

\* The execution layer fails the next statement for a reason of its own.
ConnectionFault ==
  /\ ~pg.broken
  /\ pg' = [pg EXCEPT !.broken = TRUE]
  /\ UNCHANGED <<pc, call, last, inserted, lastUpdate>>

Init ==
  /\ pg = [exists |-> {}, rows |-> [c \in Collections |-> {}],
           seq |-> [c \in Collections |-> 0], now |-> 0,
           broken |-> FALSE]
  /\ pc = [p \in Procs |-> "idle"]
  /\ call = [p \in Procs |-> NoCall]
  /\ last = [call |-> NoCall, sent |-> <<>>, result |-> NoResult]
  /\ inserted = {}
  /\ lastUpdate = [k \in {} |-> EmptyObject]

\* Every operation of the facade, by caller p.
Operation(p) ==
  \/ Get(p)
  \/ TryGet(p)
  \/ All(p)
  \/ Find(p)
  \/ FindOne(p)
  \/ TryFindOne(p)
  \/ Insert(p)
  \/ CreateCollection(p)
  \/ RetryInsert(p)
  \/ Update(p)

\* An insert call of caller p, statement by statement.
Inserting(p) ==
  \/ Insert(p)
  \/ CreateCollection(p)
  \/ RetryInsert(p)

\* Concurrent callers on a reliable connection.  The facade keeps no state
\* per caller and every call but insert is one statement, so one caller that
\* issues every operation next to one that inserts yields every interleaving
\* of statements that two callers can produce.
Next == Operation(Main) \/ Inserting(Other)

Spec == Init /\ [][Next]_vars

\* One caller at a time, on a connection that may fail.
NextSolo == Operation(Main) \/ ConnectionFault

SpecSolo == Init /\ [][NextSolo]_vars

(* ------------------------------- claims ------------------------------- *)
\* An outcome of the last call is read in the state the call left: every
\* statement that adds or changes a row completes a call and so replaces
\* `last`, hence pg.rows, inserted and lastUpdate are as the call saw them.

NeverInserted(c) == \A r \in inserted : r.collection # c

\* C1: on a collection no insert has ever put a document into, all and find
\* return the empty sequence, and get and findOne fail with
\* MissingRecordError (naming the collection and the id or criteria), never
\* with the error of the execution layer.
C1_ReadsOfUnusedCollection ==
  LET c == last.call
  IN (c.op \in {"all", "find", "get", "findOne"} /\ NeverInserted(c.collection)) =>
       CASE c.op \in {"all", "find"} -> last.result = Rows(<<>>)
         [] c.op = "get" ->
              last.result = MissingRecordError(c.collection, [id |-> c.id])
         [] c.op = "findOne" ->
              last.result = MissingRecordError(c.collection, c.criteria)

\* C1 witness: findOne on a collection whose table does not exist has failed
\* with MissingRecordError, while another collection exists.
C1_Witness ==
  /\ last.call.op = "findOne"
  /\ last.call.collection \notin pg.exists
  /\ last.result.kind = "MissingRecordError"
  /\ pg.exists # {}

\* C2 (as claimed): every insert call, also one that races with another
\* first insert into the same collection, returns a document.  The
\* connection of Spec never fails, so an error here comes from the race.
C2_RacingInsertsSucceed ==
  last.call.op = "insert" => last.result.kind = "doc"

\* C3: a lone caller's insert into a collection that does not exist sends
\* insert (table does not exist), create, insert; it returns the inserted
\* document, and on return the collection exists and holds exactly that
\* document.  Statements that the connection fails are left aside.
C3_ProvisionThenRetry ==
  [][/\ \A c \in Collections \ pg.exists, b \in Bodies :
          (~pg.broken /\ InsertOn(Main, c, b))
            => /\ pc'[Main] = "create"
               /\ call'[Main] = InsertCall(c, b)
               /\ pg' = pg
     /\ (~pg.broken /\ CreateCollection(Main))
          => /\ pc'[Main] = "retry"
             /\ call[Main].collection \notin pg.exists
             /\ pg'.exists = pg.exists \cup {call[Main].collection}
             /\ pg'.rows[call[Main].collection] = {}
     /\ (~pg.broken /\ RetryInsert(Main))
          => /\ last'.call = call[Main]
             /\ last'.sent = <<"insert", "create", "insert">>
             /\ last'.result.kind = "doc"
             /\ last'.result.doc.body = call[Main].body
             /\ call[Main].collection \in pg'.exists
             /\ pg'.rows[call[Main].collection] = {last'.result.doc}
    ]_vars

\* C3 witness: an insert that sent insert, create, insert has returned the
\* only document of its collection.
C3_Witness ==
  /\ last.call.op = "insert"
  /\ last.sent = <<"insert", "create", "insert">>
  /\ last.result.kind = "doc"
  /\ pg.rows[last.call.collection] = {last.result.doc}

\* C4: no get, tryGet, all, find, findOne, tryFindOne or insert call
\* completes with the table-does-not-exist error.
C4_NoTableDoesNotExist ==
  last.call.op \in {"get", "tryGet", "all", "find", "findOne", "tryFindOne", "insert"}
    => last.result # Err(tableDoesNotExist)

\* C4 witness: an insert met a missing table, created it and returned a
\* document while the other caller was inside an insert of its own.
C4_Witness ==
  /\ last.call.op = "insert"
  /\ last.sent = <<"insert", "create", "insert">>
  /\ last.result.kind = "doc"
  /\ pc[Main] # "idle"
  /\ pc[Other] = "idle"

\* C5 (as claimed): update on a collection that does not exist completes
\* with an empty result, not with an error.
C5_UpdateOfMissingCollectionIsEmpty ==
  (last.call.op = "update" /\ last.call.collection \notin pg.exists)
    => last.result = Undefined

\* C6: update on an existing collection without a document of that id
\* returns no document and no error, and leaves the tables as they were.
C6_UpdateOfMissingIdIsEmpty ==
  [][LET u == last'.call
     IN (/\ u.op = "update"
         /\ u.collection \in pg.exists
         /\ \A r \in pg.rows[u.collection] : r.id # u.id
         /\ UpdateOn(Main, u.collection, u.id, u.body))
          => /\ last'.result = Undefined
             /\ pg'.rows = pg.rows
             /\ pg'.exists = pg.exists
    ]_vars

\* C6 witness: an update has returned nothing on a collection that holds a
\* document, none of the id asked for.
C6_Witness ==
  /\ last.call.op = "update"
  /\ last.result = Undefined
  /\ pg.rows[last.call.collection] # {}
  /\ \A r \in pg.rows[last.call.collection] : r.id # last.call.id

\* C7: get(c, d.id) after insert(c, b) returned d, with no update of that id
\* in between, returns a document with id d.id, body b and created equal to
\* updated.
C7_InsertThenGet ==
  \A r \in inserted :
    (/\ last.call = GetCall(r.collection, r.doc.id, NoProps)
     /\ <<r.collection, r.doc.id>> \notin DOMAIN lastUpdate)
      => /\ last.result.kind = "doc"
         /\ last.result.doc.id = r.doc.id
         /\ last.result.doc.body = r.body
         /\ last.result.doc.created = last.result.doc.updated

\* C7 witness: get has returned the second of two documents of a collection,
\* which no update has touched.
C7_Witness ==
  \E r \in inserted :
    /\ last.call = GetCall(r.collection, r.doc.id, NoProps)
    /\ <<r.collection, r.doc.id>> \notin DOMAIN lastUpdate
    /\ last.result.kind = "doc"
    /\ r.doc.id = 2
    /\ Cardinality(pg.rows[r.collection]) = 2

C8_GetAfterUpdate ==
  \A r \in inserted :
    LET k == <<r.collection, r.doc.id>>
    IN (last.call = GetCall(r.collection, r.doc.id, NoProps) /\ k \in DOMAIN lastUpdate)
         => /\ last.result.kind = "doc"
            /\ last.result.doc.id = r.doc.id
            /\ last.result.doc.body = lastUpdate[k]
            /\ last.result.doc.created = r.doc.created
            /\ last.result.doc.updated > last.result.doc.created

C8_UpdateTouchesOneDocument ==
  LET u == last'.call
  IN (u.op = "update" /\ UpdateOn(Main, u.collection, u.id, u.body)) =>
       \A d \in Collections :
         /\ \A r \in pg.rows[d] :
              (d # u.collection \/ r.id # u.id) => r \in pg'.rows[d]
         /\ \A r \in pg'.rows[d] :
              (d # u.collection \/ r.id # u.id) => r \in pg.rows[d]

C9_DistinctIdsOrderedStamps ==
  \A c \in Collections :
    \A r1 \in pg.rows[c] :
      /\ r1.updated >= r1.created
      /\ \A r2 \in pg.rows[c] : r1.id = r2.id => r1 = r2

C9_FreshIdIsGreater ==
  \A r \in inserted' \ inserted :
    \A o \in pg.rows[r.collection] : r.doc.id > o.id

\* C9: the ids of one collection are pairwise distinct, every id an insert
\* returns is greater than every id stored in the collection before it, and
\* every stored document has updated >= created.
C9_IdsAndStamps ==
  []C9_DistinctIdsOrderedStamps /\ [][C9_FreshIdIsGreater]_vars

\* C9 witness: an insert has just returned the second document of a
\* collection.
C9_Witness ==
  \E c \in Collections :
    /\ Cardinality(pg.rows[c]) = 2
    /\ last.call.op = "insert"
    /\ last.call.collection = c
    /\ last.result.kind = "doc"

\* The criteria of the claim: every key of criteria is in body with an equal
\* value.
C10_Matches(body, criteria) ==
  \A k \in DOMAIN criteria : k \in DOMAIN body /\ body[k] = criteria[k]

C10_Ascending(s) == \A i \in 1..(Len(s) - 1) : s[i].id < s[i + 1].id

\* C10: find returns exactly the stored documents whose body contains the
\* criteria, in strictly ascending id order; all returns every stored
\* document in strictly ascending id order.
C10_FindAndAll ==
  LET c == last.call
  IN /\ c.op = "find" =>
          /\ last.result.kind = "rows"
          /\ Range(last.result.rows) =
               {r \in pg.rows[c.collection] : C10_Matches(r.body, c.criteria)}
          /\ C10_Ascending(last.result.rows)
     /\ c.op = "all" =>
          /\ last.result.kind = "rows"
          /\ Range(last.result.rows) = pg.rows[c.collection]
          /\ C10_Ascending(last.result.rows)

\* C10 witness: find has returned some but not all documents of a
\* collection.
C10_Witness ==
  /\ last.call.op = "find"
  /\ last.result.kind = "rows"
  /\ Len(last.result.rows) >= 1
  /\ Cardinality(pg.rows[last.call.collection]) > Len(last.result.rows)

\* What findOne and tryFindOne can return for the same collection and
\* criteria on the store as it stands.
C11_FindOneOutcomes(c, criteria) ==
  {findOne(c, criteria, out.res) : out \in PgQuery(pg, SqlFindOne(c, criteria))}

C11_TryFindOneOutcomes(c, criteria) ==
  {tryFindOne(out.res) : out \in PgQuery(pg, SqlFindOne(c, criteria))}

\* C11 (as claimed): on one store state and for the same collection and
\* criteria, findOne returns a document exactly when tryFindOne returns
\* non-null, and then both return the same document, also when several
\* documents match; when nothing matches, findOne fails with
\* MissingRecordError of the collection and criteria and tryFindOne returns
\* null.
C11_FindOneAgreesWithTryFindOne ==
  \A c \in Collections, criteria \in CriteriaSet :
    \A f \in C11_FindOneOutcomes(c, criteria), t \in C11_TryFindOneOutcomes(c, criteria) :
      /\ f.kind = "doc" <=> t # NullResult
      /\ f.kind = "doc" => f = t
      /\ f.kind # "doc" =>
           f = MissingRecordError(c, criteria) /\ t = NullResult

\* C12: on an existing collection c that holds no document of id i, get
\* fails with MissingRecordError of collection c and criteria {id: i} and
\* tryGet returns null; when the document exists, get and tryGet both
\* return it (its full stored form when no keys are requested).
C12_GetAndTryGet ==
  LET c == last.call
  IN (c.op \in {"get", "tryGet"} /\ c.collection \in pg.exists) =>
       LET M == {r \in pg.rows[c.collection] : r.id = c.id}
       IN IF M = {}
          THEN last.result =
                 (IF c.op = "get"
                  THEN MissingRecordError(c.collection, [id |-> c.id])
                  ELSE NullResult)
          ELSE /\ last.result.kind = "doc"
               /\ last.result.doc.id = c.id
               /\ c.props = NoProps => last.result.doc \in M

\* C12 witness: tryGet has returned null for an id that a collection with
\* documents does not hold.
C12_Witness ==
  /\ last.call.op = "tryGet"
  /\ last.call.collection \in pg.exists
  /\ pg.rows[last.call.collection] # {}
  /\ \A r \in pg.rows[last.call.collection] : r.id # last.call.id
  /\ last.result = NullResult

ReadOps == {"get", "tryGet", "all", "find", "findOne", "tryFindOne"}

\* The statements the call of caller p has sent before its next one.
SentBefore(p) ==
  CASE pc[p] = "create" -> <<"insert">>
    [] pc[p] = "retry" -> <<"insert", "create">>
    [] OTHER -> <<>>

\* C13: when the execution layer fails a statement with an error other than
\* table-does-not-exist, the operation completes with that same error and
\* sends nothing after the failed statement, in particular no create
\* statement; the store is as it was.  A statement sent on the broken
\* connection fails with connectionFailure, whatever operation sends it
\* (raw is exercised by update, which sends its statement through raw).
C13_OtherErrorsPropagate ==
  [][pg.broken =>
       /\ pc'[Main] = "idle"
       /\ last'.result = Err(connectionFailure)
       /\ Len(last'.sent) = Len(SentBefore(Main)) + 1
       /\ SubSeq(last'.sent, 1, Len(SentBefore(Main))) = SentBefore(Main)
       /\ pc[Main] # "create" => last'.sent[Len(last'.sent)] # "create"
       /\ pg'.exists = pg.exists
       /\ pg'.rows = pg.rows]_vars

\* C13 witness: a first insert into a missing collection has failed on the
\* broken connection; the call ended there and nothing was created.
C13_Witness ==
  /\ last.call.op = "insert"
  /\ last.result = Err(connectionFailure)
  /\ last.sent = <<"insert">>
  /\ last.call.collection \notin pg.exists
  /\ pc[Main] = "idle"

\* Every document ever inserted is still in its collection, which exists.
C14_InsertedDocumentsStay ==
  \A r \in inserted :
    /\ r.collection \in pg.exists
    /\ \E row \in pg.rows[r.collection] : row.id = r.doc.id

\* No step removes a collection, and a step that adds one is the create
\* statement of an insert call, adding the collection of that call.
C14_OnlyInsertProvisions ==
  /\ pg.exists \subseteq pg'.exists
  /\ pg'.exists # pg.exists =>
       \E p \in Procs :
         /\ pc[p] = "create"
         /\ call[p].op = "insert"
         /\ pc'[p] = "retry"
         /\ pg'.exists = pg.exists \cup {call[p].collection}

\* C14: a collection comes into existence only through the provisioning
\* step of an insert call, never through a read or an update, and once it
\* exists it exists, with every document ever inserted into it, in every
\* later state.
C14_CollectionsArePermanent ==
  []C14_InsertedDocumentsStay /\ [][C14_OnlyInsertProvisions]_vars

\* C14 witness: an update of a missing collection has failed and left it
\* missing, while the other collection, created by an insert, still holds
\* its document after it.
C14_Witness ==
  /\ last.call.op = "update"
  /\ last.call.collection \notin pg.exists
  /\ \E r \in inserted :
       /\ r.collection # last.call.collection
       /\ r.collection \in pg.exists
       /\ \E row \in pg.rows[r.collection] : row.id = r.doc.id

\* C15 (as claimed): an insert call that completes with an error has added
\* no document and created no collection, and one that returns a document
\* has added exactly that one document.  A lone caller's call that sent a
\* create statement found its collection missing, so if the collection
\* exists when that call ends, the call created it.
C15_InsertIsAtomic ==
  LET c == last.call
  IN c.op = "insert" =>
       /\ last.result.kind = "error" =>
            /\ "create" \in Range(last.sent) => c.collection \notin pg.exists
            /\ \A r \in inserted :
                 r.collection = c.collection =>
                   \E row \in pg.rows[c.collection] : row.id = r.doc.id
            /\ c.collection \in pg.exists =>
                 Cardinality(pg.rows[c.collection]) =
                   Cardinality({r \in inserted : r.collection = c.collection})
       /\ last.result.kind = "doc" =>
            /\ last.result.doc \in pg.rows[c.collection]
            /\ Cardinality(pg.rows[c.collection]) =
                 Cardinality({r \in inserted : r.collection = c.collection})

\* C16: get(c, id, fields) with a non-empty list of keys returns the stored
\* id, created and updated of the document and a body whose keys are
\* exactly the requested keys, each with its stored value, or null where
\* the stored body lacks the key; no other key of the stored body appears.
C16_ProjectedGet ==
  LET c == last.call
  IN (/\ c.op = "get"
      /\ c.props.defined
      /\ Len(c.props.list) > 0
      /\ \E r \in pg.rows[c.collection] : r.id = c.id) =>
       /\ last.result.kind = "doc"
       /\ \E r \in pg.rows[c.collection] :
            /\ r.id = c.id
            /\ last.result.doc.id = r.id
            /\ last.result.doc.created = r.created
            /\ last.result.doc.updated = r.updated
            /\ DOMAIN last.result.doc.body = Range(c.props.list)
            /\ \A k \in Range(c.props.list) :
                 last.result.doc.body[k] =
                   (IF k \in DOMAIN r.body THEN r.body[k] ELSE JsonNull)

\* C16 witness: a projected get of a key the stored body lacks has returned
\* a body that holds null under that key.
C16_Witness ==
  /\ last.call.op = "get"
  /\ last.call.props.defined
  /\ Len(last.call.props.list) > 0
  /\ last.result.kind = "doc"
  /\ \E r \in pg.rows[last.call.collection] :
       /\ r.id = last.call.id
       /\ \E k \in Range(last.call.props.list) :
            k \notin DOMAIN r.body /\ last.result.doc.body[k] = JsonNull

\* C17 (as claimed): a create statement is never sent for a collection that
\* already exists: whenever a caller sends the create statement of its
\* insert call, the collection of that call is missing, so that a
\* collection is created at most once and never again by a later or a
\* concurrent insert.
C17_CreateOnlyWhenMissing ==
  [][\A p \in Procs :
       (pc[p] = "create" /\ pc'[p] # "create") =>
         call[p].collection \notin pg.exists]_vars

\* What a completed call has sent: an insert call one insert statement, or
\* insert and create, or insert, create and insert; every other call one
\* statement.
C18_StatementsOfCall ==
  LET c == last.call
  IN /\ c.op = "insert" =>
          last.sent \in {<<"insert">>, <<"insert", "create">>,
                         <<"insert", "create", "insert">>}
     /\ c.op \in ReadOps => last.sent = <<"select">>
     /\ c.op = "update" => last.sent = <<"update">>

\* The statement after the create is the last of its call: the call ends
\* with it, and ends with its error when it fails.
C18_RetryEndsTheCall ==
  (pc[Main] = "retry" /\ pc'[Main] # "retry") =>
    /\ pc'[Main] = "idle"
    /\ last'.call = call[Main]
    /\ last'.sent = <<"insert", "create", "insert">>
    /\ pg.broken => last'.result = Err(connectionFailure)

\* C18: every insert call ends after at most two insert statements and at
\* most one create statement; when the second insert statement fails, the
\* call ends with that failure and attempts nothing further.  Every read
\* call and every update call sends exactly one statement.
C18_BoundedStatements ==
  []C18_StatementsOfCall /\ [][C18_RetryEndsTheCall]_vars

\* C18 witness: an insert call has sent insert, create and insert, and has
\* ended with the failure of the second insert statement.
C18_Witness ==
  /\ last.call.op = "insert"
  /\ last.sent = <<"insert", "create", "insert">>
  /\ last.result.kind = "error"
  /\ pc[Main] = "idle"

\* C19: get, tryGet, all, find, findOne and tryFindOne leave the store as it
\* was, whether they return or fail: no collection and no document is
\* added, changed or removed, and a read of a missing collection does not
\* create it.  A step that ends a read call is a step of Main from idle to
\* idle after which the last completed call is a read.
C19_ReadsChangeNothing ==
  [][(/\ pc[Main] = "idle"
      /\ pc' = pc
      /\ last'.call.op \in ReadOps
      /\ last'.sent = <<"select">>) =>
       /\ pg'.exists = pg.exists
       /\ pg'.rows = pg.rows
       /\ pg'.seq = pg.seq
       /\ pg'.now = pg.now]_vars

\* C19 witness: get has failed on a missing collection, which is still
\* missing, next to a collection that holds a document.
C19_Witness ==
  /\ last.call.op = "get"
  /\ last.result.kind = "MissingRecordError"
  /\ last.call.collection \notin pg.exists
  /\ \E c \in pg.exists : pg.rows[c] # {}

\* C20 (as claimed): get(c, id, fields) with an empty list of keys behaves
\* as get(c, id) without the argument: it returns the stored document with
\* its full body.
C20_EmptyListIsFullBody ==
  LET c == last.call
  IN (/\ c.op = "get"
      /\ c.props = Props(<<>>)
      /\ \E r \in pg.rows[c.collection] : r.id = c.id) =>
       /\ last.result.kind = "doc"
       /\ last.result.doc \in pg.rows[c.collection]

====
